---------------------------- MODULE Spec2Model ----------------------------
(***************************************************************************)
(* Model of the client-side session / request / navigation layer of        *)
(* frontend/src/App.jsx: the AuthProvider session store, the api.request   *)
(* fetch wrapper and its convenience operations, the App page router and   *)
(* the event handlers of the login, dashboard, contract-detail, upload and *)
(* query views.                                                            *)
(*                                                                         *)
(* The browser is single threaded: every event handler, and every promise  *)
(* continuation chain that follows the settling of a fetch, runs to        *)
(* completion, so each is one action.  A fetch that is in flight occupies  *)
(* a slot of inflight; the response of the backend is an input chosen when *)
(* the slot is delivered.                                                  *)
(***************************************************************************)
EXTENDS Integers, Sequences, FiniteSets, TLC

(***************************************************************************)
(* Bounds of the model.                                                    *)
(***************************************************************************)
MaxInFlight == 2

(***************************************************************************)
(* JavaScript values.  null and undefined are kept apart from every string *)
(* the program handles; "undefined" (without brackets) is the string that  *)
(* String(undefined) yields.                                               *)
(***************************************************************************)
Null == "<null>"
Undefined == "<undefined>"

Tokens == {"t1", "t2"}
Ids == {"abc123", "def456"}

\* What a 2xx body can carry in its access_token field: a token, or nothing.
AccessTokenValues == Tokens \cup {Undefined}

\* Truthiness, as used by !!token, if (token), !file, err.detail || ...
Truthy(v) == v \notin {Null, Undefined, ""}

\* The coercion localStorage.setItem applies to the value it stores.
ToStorageString(v) ==
    IF v = Undefined THEN "undefined"
    ELSE IF v = Null THEN "null"
    ELSE v

(***************************************************************************)
(* Text.  A JavaScript string that ends up inside a JSON document is a     *)
(* sequence of characters; DQ and BS are the two characters JSON.stringify *)
(* escapes.                                                                *)
(***************************************************************************)
DQ == "\""
BS == "\\"

Usernames == {<<"a">>, <<DQ, BS>>}
Passwords == {<<"p", BS>>}
Questions == {<<>>, <<"q", DQ>>}

RECURSIVE EscapeChars(_)
EscapeChars(s) ==
    IF s = <<>> THEN <<>>
    ELSE (IF Head(s) \in {DQ, BS} THEN <<BS, Head(s)>> ELSE <<Head(s)>>)
         \o EscapeChars(Tail(s))

\* A variant that quotes the characters as they are.
QuoteStringRaw(s) == <<DQ>> \o s \o <<DQ>>

\* JSON.stringify of a string: quotes around the escaped characters.
QuoteString(s) == <<DQ>> \o EscapeChars(s) \o <<DQ>>

\* JSON.stringify of an object whose members are <<key, string value>> pairs,
\* in insertion order.  A key is one symbol of the text.
RECURSIVE StringifyMembers(_)
StringifyMembers(ms) ==
    IF ms = <<>> THEN <<>>
    ELSE <<DQ, ms[1][1], DQ, ":">> \o QuoteString(ms[1][2])
         \o (IF Len(ms) > 1 THEN <<",">> ELSE <<>>)
         \o StringifyMembers(Tail(ms))

JSONStringify(ms) == <<"{">> \o StringifyMembers(ms) \o <<"}">>

\* The JSON reader of the receiving side: reads a quoted string starting at
\* text[i] = DQ and returns the characters and the index after the closing
\* quote.
RECURSIVE ReadString(_, _, _)
ReadString(text, i, acc) ==
    IF i > Len(text) THEN [ok |-> FALSE, value |-> acc, next |-> i]
    ELSE IF text[i] = DQ THEN [ok |-> TRUE, value |-> acc, next |-> i + 1]
    ELSE IF text[i] = BS
         THEN IF i + 1 > Len(text)
              THEN [ok |-> FALSE, value |-> acc, next |-> i]
              ELSE ReadString(text, i + 2, Append(acc, text[i + 1]))
    ELSE ReadString(text, i + 1, Append(acc, text[i]))

RECURSIVE ReadMembers(_, _, _)
ReadMembers(text, i, acc) ==
    IF i + 3 > Len(text) \/ text[i] # DQ \/ text[i + 2] # DQ \/ text[i + 3] # ":"
    THEN [ok |-> FALSE, value |-> acc]
    ELSE IF i + 4 > Len(text) \/ text[i + 4] # DQ
    THEN [ok |-> FALSE, value |-> acc]
    ELSE LET s == ReadString(text, i + 5, <<>>)
             got == Append(acc, <<text[i + 1], s.value>>)
         IN  IF ~s.ok \/ s.next > Len(text) THEN [ok |-> FALSE, value |-> acc]
             ELSE IF text[s.next] = "}"
                  THEN [ok |-> s.next = Len(text), value |-> got]
             ELSE IF text[s.next] = ","
                  THEN ReadMembers(text, s.next + 1, got)
             ELSE [ok |-> FALSE, value |-> acc]

JSONParse(text) ==
    IF Len(text) < 2 \/ text[1] # "{" THEN [ok |-> FALSE, value |-> <<>>]
    ELSE IF text[2] = "}" THEN [ok |-> Len(text) = 2, value |-> <<>>]
    ELSE ReadMembers(text, 2, <<>>)


(***************************************************************************)
(* Request bodies.  instanceof FormData and instanceof URLSearchParams are *)
(* the kind of the body; a plain object is the sequence of its members.    *)
(***************************************************************************)
NoBody == [kind |-> "none", data |-> <<>>]
PlainObject(ms) == [kind |-> "object", data |-> ms]
URLSearchParams(ms) == [kind |-> "urlencoded", data |-> ms]
FormData(ms) == [kind |-> "formdata", data |-> ms]
JSONText(chars) == [kind |-> "text", data |-> chars]

\* A headers object: a missing header is Undefined (Content-Type) or the
\* empty sequence (Authorization).
NoHeaders == [ContentType |-> Undefined, Authorization |-> <<>>]
Bearer(t) == <<"Bearer", t>>

\* { ...a, ...b }: the members of b win over those of a.
SpreadHeaders(a, b) ==
    [ContentType   |-> IF b.ContentType # Undefined THEN b.ContentType
                       ELSE a.ContentType,
     Authorization |-> IF b.Authorization # <<>> THEN b.Authorization
                       ELSE a.Authorization]

Options(body, method, headers) ==
    [body |-> body, method |-> method, headers |-> headers]

\* The Authorization header of a request built while the store holds token.
AuthorizationFor(token) == IF Truthy(token) THEN Bearer(token) ELSE <<>>

\* A variant of the default headers in which the test of the token sits
\* inside the test of the body.
DefaultHeadersNested(body, token) ==
    IF body.kind # "formdata"
    THEN [ContentType |-> "application/json",
          Authorization |-> AuthorizationFor(token)]
    ELSE NoHeaders

\* The default headers of api.request.
DefaultHeaders(body, token) ==
    [ContentType   |-> IF body.kind # "formdata" THEN "application/json"
                       ELSE Undefined,
     Authorization |-> AuthorizationFor(token)]

\* config.body of api.request.
SerializeBody(body) ==
    IF body.kind = "none" THEN NoBody
    ELSE IF body.kind \in {"formdata", "urlencoded"} THEN body
    ELSE JSONText(JSONStringify(body.data))

\* The config api.request hands to fetch; token is what
\* localStorage.getItem('token') returned.
BuildConfig(options, token) ==
    [method  |-> IF options.method # Undefined THEN options.method
                 ELSE IF options.body.kind # "none" THEN "POST" ELSE "GET",
     headers |-> SpreadHeaders(DefaultHeaders(options.body, token),
                               options.headers),
     body    |-> SerializeBody(options.body)]

(***************************************************************************)
(* The convenience operations: endpoint and options of each.               *)
(***************************************************************************)
SignupCall(username, password) ==
    [endpoint |-> <<"/signup">>,
     options  |-> Options(PlainObject(<< <<"username", username>>,
                                         <<"password", password>> >>),
                          Undefined, NoHeaders)]

LoginCall(username, password) ==
    [endpoint |-> <<"/login">>,
     options  |-> Options(URLSearchParams(<< <<"username", username>>,
                                             <<"password", password>> >>),
                          "POST",
                          [ContentType   |-> "application/x-www-form-urlencoded",
                           Authorization |-> <<>>])]

GetContractsCall ==
    [endpoint |-> <<"/contracts">>,
     options  |-> Options(NoBody, Undefined, NoHeaders)]

GetContractDetailsCall(docId) ==
    [endpoint |-> <<"/contracts", docId>>,
     options  |-> Options(NoBody, Undefined, NoHeaders)]

UploadContractCall(formData) ==
    [endpoint |-> <<"/upload">>,
     options  |-> Options(formData, "POST", NoHeaders)]

AskQuestionCall(question) ==
    [endpoint |-> <<"/ask">>,
     options  |-> Options(PlainObject(<< <<"question", question>> >>),
                          Undefined, NoHeaders)]

(***************************************************************************)
(* Responses and the values a call settles with.                           *)
(***************************************************************************)
NoDetail == [t |-> "undefined", v |-> <<>>]
StringDetail(s) == [t |-> "string", v |-> <<s>>]
ArrayDetail(items) == [t |-> "array", v |-> items]

\* A JavaScript value a call resolves or rejects with: a parsed JSON object,
\* or an Error.
Value(type, message, accessToken, detail, payload) ==
    [type |-> type, message |-> message, access_token |-> accessToken,
     detail |-> detail, payload |-> payload]

JSONObject(accessToken, detail, payload) ==
    Value("object", Undefined, accessToken, detail, payload)

ErrorObject(message) == Value("Error", message, Undefined, NoDetail, {})

NetworkError == JSONObject(Undefined,
                           StringDetail("Network error or server is down."), {})

StatusText(status) ==
    CASE status = 200 -> "OK"
      [] status = 201 -> "Created"
      [] status = 400 -> "Bad Request"
      [] status = 401 -> "Unauthorized"
      [] status = 422 -> "Unprocessable Entity"
      [] OTHER        -> "Internal Server Error"

\* response.ok
IsOk(status) == status >= 200 /\ status <= 299

\* What fetch delivers: a transport failure, or a response with a status and
\* a body that either parses as JSON (to json) or does not.
TransportFailure ==
    [failed |-> TRUE, status |-> 0, parseable |-> FALSE,
     json |-> JSONObject(Undefined, NoDetail, {})]
Response(status, parseable, json) ==
    [failed |-> FALSE, status |-> status, parseable |-> parseable, json |-> json]

\* How api.request settles, and what it did on the way: teardown is the 401
\* branch (removeItem and the assignment to window.location.href), parsed is
\* whether response.json() was called.
Outcome(resolved, value, teardown, parsed) ==
    [resolved |-> resolved, value |-> value, teardown |-> teardown,
     parsed |-> parsed]

\* response.json().catch(() => ({ detail: response.statusText }))
ResponseData(net) ==
    IF net.parseable THEN net.json
    ELSE JSONObject(Undefined, StringDetail(StatusText(net.status)), {})

\* A variant in which the rejection of a non-2xx response is thrown inside
\* the try block, and so caught by the catch block.
SettleThrowing(net) ==
    IF net.failed THEN Outcome(FALSE, NetworkError, FALSE, FALSE)
    ELSE IF net.status = 401
         THEN Outcome(FALSE, ErrorObject("Unauthorized"), TRUE, FALSE)
    ELSE IF ~IsOk(net.status)
         THEN Outcome(FALSE, NetworkError, FALSE, TRUE)
    ELSE Outcome(TRUE, ResponseData(net), FALSE, TRUE)

\* The try/catch of api.request, from the settling of fetch on.  A rejected
\* promise that is returned (not awaited) from the try block is not caught
\* by the catch block.
Settle(net) ==
    IF net.failed THEN Outcome(FALSE, NetworkError, FALSE, FALSE)
    ELSE IF net.status = 401
         THEN Outcome(FALSE, ErrorObject("Unauthorized"), TRUE, FALSE)
    ELSE IF ~IsOk(net.status)
         THEN Outcome(FALSE, ResponseData(net), FALSE, TRUE)
    ELSE Outcome(TRUE, ResponseData(net), FALSE, TRUE)

(***************************************************************************)
(* The responses the backend can give to a request.  A 401 and every other *)
(* failure can come from every endpoint, with a body that parses or not;   *)
(* the 2xx bodies of the data endpoints have the shapes of the backend's   *)
(* interface, and the 2xx body of /login may or may not carry the          *)
(* access_token field.                                                     *)
(***************************************************************************)
ValidationItems == <<"username", "field required">>

ErrorBodies ==
    {JSONObject(Undefined, StringDetail("Incorrect username or password"), {}),
     JSONObject(Undefined, ArrayDetail(ValidationItems), {})}

FailureResponses ==
    {TransportFailure,
     Response(401, TRUE, JSONObject(Undefined, StringDetail("Not authenticated"), {})),
     Response(500, FALSE, JSONObject(Undefined, NoDetail, {}))}
    \cup {Response(422, TRUE, b) : b \in ErrorBodies}

SuccessBodies(req) ==
    CASE req.op = "login" ->
           {JSONObject(t, NoDetail, {}) : t \in AccessTokenValues}
      [] req.op = "signup" -> {JSONObject(Undefined, NoDetail, {"created"})}
      [] req.op = "getContracts" ->
           {JSONObject(Undefined, NoDetail, ids) : ids \in SUBSET Ids}
      [] req.op = "getContractDetails" ->
           {JSONObject(Undefined, NoDetail, {req.endpoint[2]})}
      [] req.op = "uploadContract" ->
           {JSONObject(Undefined, NoDetail, {"contract.pdf"})}
      [] OTHER -> {JSONObject(Undefined, NoDetail, {"answer"})}

\* What an abandoned call receives matters only as far as api.request looks
\* at it (a 401 or not), except that the answer to an abandoned detail call
\* carries the contract that was asked for.
Responses(req) ==
    IF ~req.owner
    THEN {Response(401, TRUE, JSONObject(Undefined, StringDetail("Not authenticated"), {})),
          Response(200, TRUE,
                   JSONObject(Undefined, NoDetail,
                              IF req.docId = Null THEN {} ELSE {req.docId}))}
    ELSE FailureResponses
         \cup {Response(200, TRUE, b) : b \in SuccessBodies(req)}
         \cup (IF req.op = "login"
               THEN {Response(200, FALSE, JSONObject(Undefined, NoDetail, {}))}
               ELSE {})

(***************************************************************************)
(* State.                                                                  *)
(***************************************************************************)
VARIABLES
    localStorage,     \* the 'token' item of window.localStorage, Null if absent
    token,            \* the token state of AuthProvider
    page,             \* the page state of App
    selectedDocId,    \* the selectedDocId state of App
    view,             \* the component mounted by App and its local state
    inflight,         \* the fetches in flight, by slot
    navigation,       \* the navigation an assignment to window.location.href
                      \* has started and the browser has not yet committed
    lastOp            \* history: the handler that ran last

vars == <<localStorage, token, page, selectedDocId, view, inflight,
          navigation, lastOp>>

\* const isAuthenticated = !!token
IsAuthenticatedOf(tok) == Truthy(tok)
isAuthenticated == IsAuthenticatedOf(token)

Slots == 1..MaxInFlight
Free == [op |-> "free"]
NoInflight == [i \in Slots |-> Free]
HasFreeSlot(infl) == \E i \in Slots : infl[i].op = "free"
FreeSlot(infl) == CHOOSE i \in Slots :
                    /\ infl[i].op = "free"
                    /\ \A j \in Slots : infl[j].op = "free" => i <= j

NoCont == [isLoginView |-> TRUE, username |-> <<>>, password |-> <<>>]

\* api.request up to and including the call of fetch: the request in flight.
\* stored is what localStorage.getItem('token') returns at that moment;
\* options (what the caller passed) and cont (what the awaiting handler
\* closes over) stay with the call until it settles.
ApiRequest(op, call, stored, cont) ==
    [op |-> op, endpoint |-> call.endpoint, options |-> call.options,
     config |-> BuildConfig(call.options, stored),
     owner |-> TRUE, cont |-> cont]

Issue(infl, req) == [infl EXCEPT ![FreeSlot(infl)] = req]

\* The continuations of an unmounted component set state that no longer
\* exists: its calls stay in flight without an owner, and all that is left
\* of them is the rest of api.request.  docId is the contract an abandoned
\* detail call has asked for.
Abandoned(req) ==
    IF req.op = "abandoned" THEN req
    ELSE [op |-> "abandoned", owner |-> FALSE,
          docId |-> IF req.op = "getContractDetails" THEN req.endpoint[2]
                    ELSE Null]

Orphan(infl) ==
    [i \in Slots |-> IF infl[i].op = "free" THEN Free
                     ELSE Abandoned(infl[i])]

(***************************************************************************)
(* The local state of each component, as its useState calls initialise it. *)
(***************************************************************************)
NoError == [t |-> "null", v |-> <<>>]
StringError(parts) == [t |-> "string", v |-> parts]

LoginPage0 ==
    [component |-> "LoginPage", isLoginView |-> TRUE, username |-> <<>>,
     password |-> <<>>, error |-> NoError, loading |-> FALSE]

DashboardPage0 ==
    [component |-> "DashboardPage", contracts |-> {}, loading |-> TRUE,
     error |-> NoError]

\* fetches counts the calls of getContractDetails this instance has made.
ContractDetailPage0(docId) ==
    [component |-> "ContractDetailPage", docId |-> docId, contract |-> Null,
     loading |-> TRUE, error |-> NoError, fetches |-> 0]

UploadPage0 ==
    [component |-> "UploadPage", file |-> Null, parties |-> "",
     expiryDate |-> "", error |-> NoError, success |-> NoError,
     loading |-> FALSE]

QueryPage0 ==
    [component |-> "QueryPage", question |-> <<>>, result |-> Null,
     loading |-> FALSE, error |-> NoError]

PlaceholderPage0(title) == [component |-> "PlaceholderPage", title |-> title]

Pages == {"dashboard", "contract-detail", "upload", "query", "insights",
          "settings"}
NavItems == {"dashboard", "query", "upload", "insights", "settings"}

\* A variant in which only the dashboard is behind the authentication test.
ComponentOfGatedDashboard(tok, pg) ==
    CASE pg = "contract-detail" -> "ContractDetailPage"
      [] pg = "upload"          -> "UploadPage"
      [] pg = "query"           -> "QueryPage"
      [] pg = "insights"        -> "PlaceholderPage"
      [] pg = "settings"        -> "PlaceholderPage"
      [] OTHER -> IF ~IsAuthenticatedOf(tok) THEN "LoginPage"
                  ELSE "DashboardPage"

\* App: the login view unless authenticated, else the switch of renderPage.
ComponentOf(tok, pg) ==
    IF ~IsAuthenticatedOf(tok) THEN "LoginPage"
    ELSE CASE pg = "dashboard"       -> "DashboardPage"
           [] pg = "contract-detail" -> "ContractDetailPage"
           [] pg = "upload"          -> "UploadPage"
           [] pg = "query"           -> "QueryPage"
           [] pg = "insights"        -> "PlaceholderPage"
           [] pg = "settings"        -> "PlaceholderPage"
           [] OTHER                  -> "DashboardPage"

\* The effect of ContractDetailPage, run on mount and when docId changes.
DetailEffect(v, docId, stored, infl) ==
    IF ~Truthy(docId) THEN [ok |-> TRUE, view |-> v, inflight |-> infl]
    ELSE IF ~HasFreeSlot(infl) THEN [ok |-> FALSE, view |-> v, inflight |-> infl]
    ELSE [ok |-> TRUE,
          view |-> [v EXCEPT !.loading = TRUE, !.fetches = @ + 1],
          inflight |-> Issue(infl, ApiRequest("getContractDetails",
                                   GetContractDetailsCall(docId), stored, NoCont))]

\* Mounting a component: its initial state and its mount effect.
Mount(component, pg, sel, stored, infl) ==
    CASE component = "LoginPage" ->
           [ok |-> TRUE, view |-> LoginPage0, inflight |-> infl]
      [] component = "DashboardPage" ->
           IF ~HasFreeSlot(infl)
           THEN [ok |-> FALSE, view |-> DashboardPage0, inflight |-> infl]
           ELSE [ok |-> TRUE, view |-> DashboardPage0,
                 inflight |-> Issue(infl, ApiRequest("getContracts",
                                          GetContractsCall, stored, NoCont))]
      [] component = "ContractDetailPage" ->
           DetailEffect(ContractDetailPage0(sel), sel, stored, infl)
      [] component = "UploadPage" ->
           [ok |-> TRUE, view |-> UploadPage0, inflight |-> infl]
      [] component = "QueryPage" ->
           [ok |-> TRUE, view |-> QueryPage0, inflight |-> infl]
      [] OTHER ->
           [ok |-> TRUE, view |-> PlaceholderPage0(pg), inflight |-> infl]

\* A variant in which the effect of ContractDetailPage has no dependency
\* list and runs after every render.
RenderEveryTime(tok, pg, sel, stored, v, infl) ==
    LET target == ComponentOf(tok, pg) IN
    IF target # v.component THEN Mount(target, pg, sel, stored, Orphan(infl))
    ELSE IF target = "ContractDetailPage"
         THEN DetailEffect([v EXCEPT !.docId = sel], sel, stored, infl)
    ELSE IF target = "PlaceholderPage"
         THEN [ok |-> TRUE, view |-> PlaceholderPage0(pg), inflight |-> infl]
    ELSE [ok |-> TRUE, view |-> v, inflight |-> infl]

\* The render that follows a handler: the mounted component keeps its state
\* while App renders the same component type, and is replaced otherwise.
Render(tok, pg, sel, stored, v, infl) ==
    LET target == ComponentOf(tok, pg) IN
    IF target # v.component THEN Mount(target, pg, sel, stored, Orphan(infl))
    ELSE IF target = "ContractDetailPage"
         THEN IF v.docId = sel THEN [ok |-> TRUE, view |-> v, inflight |-> infl]
              ELSE DetailEffect([v EXCEPT !.docId = sel], sel, stored, infl)
    ELSE IF target = "PlaceholderPage"
         THEN [ok |-> TRUE, view |-> PlaceholderPage0(pg), inflight |-> infl]
    ELSE [ok |-> TRUE, view |-> v, inflight |-> infl]

(***************************************************************************)
(* History.  lastOp names the handler that ran last and, for the settling  *)
(* of a call, the call (with the mode its handler closed over), what fetch *)
(* delivered and how api.request settled.                                  *)
(***************************************************************************)
HandlerWith(name, arg) ==
    [name |-> name, arg |-> arg, op |-> "-", owner |-> FALSE,
     isLoginView |-> TRUE, net |-> TransportFailure,
     outcome |-> Settle(TransportFailure)]

Handler(name) == HandlerWith(name, Undefined)

Settled(req, net, out) ==
    [name |-> "settle",
     arg |-> IF req.owner THEN Undefined ELSE req.docId,
     op |-> req.op, owner |-> req.owner,
     isLoginView |-> IF req.owner THEN req.cont.isLoginView ELSE TRUE,
     net |-> net,
     outcome |-> out]

\* Every handler ends with the render of what it changed.
Commit(stored, tok, pg, sel, v, infl, op) ==
    LET r == Render(tok, pg, sel, stored, v, infl) IN
    /\ r.ok
    /\ localStorage' = stored
    /\ token' = tok
    /\ page' = pg
    /\ selectedDocId' = sel
    /\ view' = r.view
    /\ inflight' = r.inflight
    /\ lastOp' = op

\* A handler that changes only the local state of the mounted component.
Local(v, infl, op) ==
    /\ Commit(localStorage, token, page, selectedDocId, v, infl, op)
    /\ UNCHANGED navigation

(***************************************************************************)
(* Process start: AuthProvider reads the token from localStorage, App      *)
(* starts on the dashboard with no selection, nothing is in flight.        *)
(***************************************************************************)
\* A variant in which the token state starts empty.
BootFresh(stored) ==
    LET m == Mount(ComponentOf(Null, "dashboard"), "dashboard", Null, stored,
                   NoInflight)
    IN  [token |-> Null, page |-> "dashboard", selectedDocId |-> Null,
         view |-> m.view, inflight |-> m.inflight]

Boot(stored) ==
    LET tok == stored
        m == Mount(ComponentOf(tok, "dashboard"), "dashboard", Null, stored,
                   NoInflight)
    IN  [token |-> tok, page |-> "dashboard", selectedDocId |-> Null,
         view |-> m.view, inflight |-> m.inflight]

Init ==
    /\ localStorage = Null
    /\ token = Boot(Null).token
    /\ page = Boot(Null).page
    /\ selectedDocId = Boot(Null).selectedDocId
    /\ view = Boot(Null).view
    /\ inflight = Boot(Null).inflight
    /\ navigation = Null
    /\ lastOp = Handler("start")

Restart ==
    LET b == Boot(localStorage) IN
    /\ token' = b.token
    /\ page' = b.page
    /\ selectedDocId' = b.selectedDocId
    /\ view' = b.view
    /\ inflight' = b.inflight
    /\ navigation' = Null
    /\ lastOp' = Handler("start")
    /\ UNCHANGED localStorage

\* The user reloads the page.
Reload == Restart

\* The navigation started by window.location.href = '/login' loads the
\* application anew.
NavigationCommit ==
    /\ navigation # Null
    /\ Restart

(***************************************************************************)
(* AuthProvider.                                                           *)
(***************************************************************************)
\* login(newToken): the item and the state after it.
AuthLogin(newToken) ==
    [localStorage |-> ToStorageString(newToken), token |-> newToken]

\* logout(): the item and the state after it.
AuthLogout == [localStorage |-> Null, token |-> Null]

\* A variant in which logging out also takes the router back to the dashboard.
LogoutToDashboard ==
    /\ view.component # "LoginPage"
    /\ Commit(AuthLogout.localStorage, AuthLogout.token, "dashboard", Null,
              view, inflight, Handler("logout"))
    /\ UNCHANGED navigation

\* The Logout button of the sidebar.
Logout ==
    /\ view.component # "LoginPage"
    /\ Commit(AuthLogout.localStorage, AuthLogout.token, page, selectedDocId,
              view, inflight, Handler("logout"))
    /\ UNCHANGED navigation

(***************************************************************************)
(* Navigation.                                                             *)
(***************************************************************************)
\* A navigation item of the sidebar: setPage(item.id).
SidebarNavigate(p) ==
    /\ view.component # "LoginPage"
    /\ Commit(localStorage, token, p, selectedDocId, view, inflight,
              Handler("other"))
    /\ UNCHANGED navigation

\* The rows of the dashboard are rendered once the list has arrived.
DashboardShowsList ==
    /\ view.component = "DashboardPage"
    /\ ~view.loading
    /\ view.error.t = "null"

\* DashboardPage.handleViewDetails(docId), from the row of docId.
HandleViewDetails(docId) ==
    /\ DashboardShowsList
    /\ docId \in view.contracts
    /\ Commit(localStorage, token, "contract-detail", docId, view, inflight,
              HandlerWith("handleViewDetails", docId))
    /\ UNCHANGED navigation

\* The Upload Contract button of the empty dashboard.
EmptyStateUpload ==
    /\ DashboardShowsList
    /\ view.contracts = {}
    /\ Commit(localStorage, token, "upload", selectedDocId, view, inflight,
              Handler("other"))
    /\ UNCHANGED navigation

\* A variant in which going back to the list also drops the selection.
BackToContractsClearing ==
    /\ view.component = "ContractDetailPage"
    /\ ~view.loading
    /\ view.error.t = "null"
    /\ view.contract # Null
    /\ Commit(localStorage, token, "dashboard", Null, view, inflight,
              Handler("other"))
    /\ UNCHANGED navigation

\* The Back to Contracts button of the detail view.
BackToContracts ==
    /\ view.component = "ContractDetailPage"
    /\ ~view.loading
    /\ view.error.t = "null"
    /\ view.contract # Null
    /\ Commit(localStorage, token, "dashboard", selectedDocId, view, inflight,
              Handler("other"))
    /\ UNCHANGED navigation

(***************************************************************************)
(* LoginPage.                                                              *)
(***************************************************************************)
ToggleLoginView ==
    /\ view.component = "LoginPage"
    /\ Local([view EXCEPT !.isLoginView = ~@], inflight, Handler("other"))

SetUsername(u) ==
    /\ view.component = "LoginPage"
    /\ Local([view EXCEPT !.username = u], inflight, Handler("other"))

SetPassword(p) ==
    /\ view.component = "LoginPage"
    /\ Local([view EXCEPT !.password = p], inflight, Handler("other"))

LoginClearError ==
    /\ view.component = "LoginPage"
    /\ view.error.t # "null"
    /\ Local([view EXCEPT !.error = NoError], inflight, Handler("other"))

\* The first call of LoginPage.handleSubmit: login in login mode, signup in
\* signup mode.  The handler closes over the mode and the credentials.
FirstCall(v, stored) ==
    LET cont == [isLoginView |-> v.isLoginView, username |-> v.username,
                 password |-> v.password]
    IN  IF v.isLoginView
        THEN ApiRequest("login", LoginCall(v.username, v.password), stored, cont)
        ELSE ApiRequest("signup", SignupCall(v.username, v.password), stored, cont)

\* The call handleSubmit makes once signup has resolved.
LoginAfterSignup(req, v, stored) ==
    ApiRequest("login", LoginCall(req.cont.username, req.cont.password), stored,
               req.cont)

\* LoginPage.handleSubmit up to its first await.  The submit button is
\* disabled while loading and both inputs are required.
LoginSubmit ==
    /\ view.component = "LoginPage"
    /\ ~view.loading
    /\ view.username # <<>>
    /\ view.password # <<>>
    /\ HasFreeSlot(inflight)
    /\ Local([view EXCEPT !.error = NoError, !.loading = TRUE],
             Issue(inflight, FirstCall(view, localStorage)),
             Handler("other"))

\* err.detail.map(d => `${d.loc[1]}: ${d.msg}`).join(', ')
RECURSIVE FlattenValidation(_)
FlattenValidation(items) ==
    IF Len(items) < 2 THEN <<>>
    ELSE <<items[1], ": ", items[2]>>
         \o (IF Len(items) > 2 THEN <<", ">> ELSE <<>>)
         \o FlattenValidation(SubSeq(items, 3, Len(items)))

\* The catch block of LoginPage.handleSubmit.
LoginErrorMessage(err, isLoginView) ==
    IF err.detail.t = "array" THEN StringError(FlattenValidation(err.detail.v))
    ELSE IF err.detail.t = "string" THEN StringError(err.detail.v)
    ELSE StringError(<<IF isLoginView THEN "Failed to login."
                       ELSE "Failed to sign up.">>)

\* setError(err.detail || fallback) of the other views.
ViewErrorMessage(err, fallback) ==
    IF err.detail.t = "undefined" THEN StringError(<<fallback>>)
    ELSE [t |-> err.detail.t, v |-> err.detail.v]

(***************************************************************************)
(* UploadPage.                                                             *)
(***************************************************************************)
Files == {"contract.pdf"}
PartiesValues == {"", "Acme, Globex"}
ExpiryDates == {"", "2030-01-01"}

\* handleFileChange and handleDrop with a file.
HandleFileChange(f) ==
    /\ view.component = "UploadPage"
    /\ Local([view EXCEPT !.file = f], inflight, Handler("other"))

SetParties(p) ==
    /\ view.component = "UploadPage"
    /\ Local([view EXCEPT !.parties = p], inflight, Handler("other"))

SetExpiryDate(d) ==
    /\ view.component = "UploadPage"
    /\ Local([view EXCEPT !.expiryDate = d], inflight, Handler("other"))

UploadClearError ==
    /\ view.component = "UploadPage"
    /\ view.error.t # "null"
    /\ Local([view EXCEPT !.error = NoError], inflight, Handler("other"))

UploadClearSuccess ==
    /\ view.component = "UploadPage"
    /\ view.success.t # "null"
    /\ Local([view EXCEPT !.success = NoError], inflight, Handler("other"))

\* A variant that tests the file only.
UploadIncompleteFileOnly(v) == ~Truthy(v.file)

\* if (!file || !parties || !expiryDate)
UploadIncomplete(v) ==
    ~Truthy(v.file) \/ ~Truthy(v.parties) \/ ~Truthy(v.expiryDate)

UploadFormData(v) ==
    FormData(<< <<"file", v.file>>, <<"parties", v.parties>>,
                <<"expiry_date", v.expiryDate>> >>)

\* UploadPage.handleSubmit up to its await.
UploadSubmit ==
    /\ view.component = "UploadPage"
    /\ ~view.loading
    /\ IF UploadIncomplete(view)
       THEN Local([view EXCEPT !.error = StringError(<<"All fields are required.">>)],
                  inflight, Handler("uploadSubmit"))
       ELSE /\ HasFreeSlot(inflight)
            /\ Local([view EXCEPT !.error = NoError, !.success = NoError,
                                  !.loading = TRUE],
                     Issue(inflight,
                           ApiRequest("uploadContract",
                                      UploadContractCall(UploadFormData(view)),
                                      localStorage, NoCont)),
                     Handler("uploadSubmit"))

(***************************************************************************)
(* QueryPage.                                                              *)
(***************************************************************************)
SetQuestion(q) ==
    /\ view.component = "QueryPage"
    /\ Local([view EXCEPT !.question = q], inflight, Handler("other"))

\* QueryPage.handleSubmit up to its await.
QuerySubmit ==
    /\ view.component = "QueryPage"
    /\ ~view.loading
    /\ HasFreeSlot(inflight)
    /\ Local([view EXCEPT !.loading = TRUE, !.error = NoError, !.result = Null],
             Issue(inflight,
                   ApiRequest("askQuestion", AskQuestionCall(view.question),
                              localStorage, NoCont)),
             Handler("other"))

(***************************************************************************)
(* The settling of a call: the rest of api.request, then the rest of the   *)
(* handler that awaited it (its try, catch and finally).                   *)
(***************************************************************************)
Only(payload) == IF payload = {} THEN Undefined ELSE CHOOSE x \in payload : TRUE

After(stored, tok, v, infl) ==
    [localStorage |-> stored, token |-> tok, view |-> v, inflight |-> infl]

\* LoginPage.handleSubmit after api.login has settled.
AfterLogin(req, out, stored, v, infl) ==
    IF out.resolved
    THEN LET a == AuthLogin(out.value.access_token) IN
         After(a.localStorage, a.token, [v EXCEPT !.loading = FALSE], infl)
    ELSE After(stored, token,
               [v EXCEPT !.error = LoginErrorMessage(out.value, req.cont.isLoginView),
                         !.loading = FALSE], infl)

\* LoginPage.handleSubmit after api.signup has settled.
AfterSignup(req, out, stored, v, infl) ==
    IF out.resolved
    THEN After(stored, token, v, Issue(infl, LoginAfterSignup(req, v, stored)))
    ELSE After(stored, token,
               [v EXCEPT !.error = LoginErrorMessage(out.value, req.cont.isLoginView),
                         !.loading = FALSE], infl)

\* fetchContracts of DashboardPage after api.getContracts has settled.
AfterGetContracts(req, out, stored, v, infl) ==
    IF out.resolved
    THEN After(stored, token,
               [v EXCEPT !.contracts = out.value.payload, !.loading = FALSE], infl)
    ELSE After(stored, token,
               [v EXCEPT !.error = ViewErrorMessage(out.value,
                                                    "Failed to fetch contracts."),
                         !.loading = FALSE], infl)

\* fetchDetails of ContractDetailPage after api.getContractDetails settled.
AfterGetContractDetails(req, out, stored, v, infl) ==
    IF out.resolved
    THEN After(stored, token,
               [v EXCEPT !.contract = Only(out.value.payload), !.loading = FALSE],
               infl)
    ELSE After(stored, token,
               [v EXCEPT !.error = ViewErrorMessage(out.value,
                                                    "Failed to fetch contract details."),
                         !.loading = FALSE], infl)

\* UploadPage.handleSubmit after api.uploadContract has settled.
AfterUpload(req, out, stored, v, infl) ==
    IF out.resolved
    THEN After(stored, token,
               [v EXCEPT !.success = StringError(<<"Successfully uploaded ",
                                                   Only(out.value.payload), ".">>),
                         !.file = Null, !.parties = "", !.expiryDate = "",
                         !.loading = FALSE], infl)
    ELSE After(stored, token,
               [v EXCEPT !.error = ViewErrorMessage(out.value, "File upload failed."),
                         !.loading = FALSE], infl)

\* QueryPage.handleSubmit after api.askQuestion has settled.
AfterAsk(req, out, stored, v, infl) ==
    IF out.resolved
    THEN After(stored, token,
               [v EXCEPT !.result = Only(out.value.payload), !.loading = FALSE],
               infl)
    ELSE After(stored, token,
               [v EXCEPT !.error = ViewErrorMessage(out.value,
                                                    "Failed to get an answer."),
                         !.loading = FALSE], infl)

\* A variant in which the continuation of an abandoned detail call sets the
\* state of whatever detail view is mounted when the call settles.
ContinueShared(req, out, stored, v, infl) ==
    IF ~req.owner
    THEN IF req.docId # Null /\ v.component = "ContractDetailPage"
         THEN AfterGetContractDetails(req, out, stored, v, infl)
         ELSE After(stored, token, v, infl)
    ELSE CASE req.op = "login"  -> AfterLogin(req, out, stored, v, infl)
           [] req.op = "signup" -> AfterSignup(req, out, stored, v, infl)
           [] req.op = "getContracts" ->
                AfterGetContracts(req, out, stored, v, infl)
           [] req.op = "getContractDetails" ->
                AfterGetContractDetails(req, out, stored, v, infl)
           [] req.op = "uploadContract" -> AfterUpload(req, out, stored, v, infl)
           [] OTHER -> AfterAsk(req, out, stored, v, infl)

\* The continuation of the component that awaits req, if it is still mounted.
Continue(req, out, stored, v, infl) ==
    IF ~req.owner THEN After(stored, token, v, infl)
    ELSE CASE req.op = "login"  -> AfterLogin(req, out, stored, v, infl)
           [] req.op = "signup" -> AfterSignup(req, out, stored, v, infl)
           [] req.op = "getContracts" ->
                AfterGetContracts(req, out, stored, v, infl)
           [] req.op = "getContractDetails" ->
                AfterGetContractDetails(req, out, stored, v, infl)
           [] req.op = "uploadContract" -> AfterUpload(req, out, stored, v, infl)
           [] OTHER -> AfterAsk(req, out, stored, v, infl)

\* The 'token' item after the status check of api.request.
StoredAfter(out, stored) == IF out.teardown THEN Null ELSE stored

\* fetch settles for the request in slot i with net; api.request settles and
\* the awaiting handler runs to its end.
Deliver(i, net) ==
    LET req == inflight[i]
        out == Settle(net)
        after == Continue(req, out, StoredAfter(out, localStorage), view,
                          [inflight EXCEPT ![i] = Free])
    IN  /\ Commit(after.localStorage, after.token, page, selectedDocId,
                  after.view, after.inflight, Settled(req, net, out))
        /\ navigation' = IF out.teardown THEN "/login" ELSE navigation

Settles ==
    \E i \in Slots :
        /\ inflight[i].op # "free"
        /\ \E net \in Responses(inflight[i]) : Deliver(i, net)

Next ==
    \/ Reload
    \/ NavigationCommit
    \/ Logout
    \/ \E p \in NavItems : SidebarNavigate(p)
    \/ \E id \in Ids : HandleViewDetails(id)
    \/ EmptyStateUpload
    \/ BackToContracts
    \/ ToggleLoginView
    \/ \E u \in Usernames : SetUsername(u)
    \/ \E p \in Passwords : SetPassword(p)
    \/ LoginClearError
    \/ LoginSubmit
    \/ \E f \in Files : HandleFileChange(f)
    \/ \E p \in PartiesValues : SetParties(p)
    \/ \E d \in ExpiryDates : SetExpiryDate(d)
    \/ UploadClearError
    \/ UploadClearSuccess
    \/ UploadSubmit
    \/ \E q \in Questions : SetQuestion(q)
    \/ QuerySubmit
    \/ Settles

Spec == Init /\ [][Next]_vars

(***************************************************************************)
(* Properties.                                                             *)
(***************************************************************************)
Owned(i) == inflight[i].op # "free" /\ inflight[i].owner

\* The slots in which a step has put a call on the wire.
IssuedIn(i) ==
    /\ inflight'[i].op # "free"
    /\ inflight'[i].owner
    /\ inflight'[i] # inflight[i]

SettledWith401 ==
    /\ lastOp.name = "settle"
    /\ ~lastOp.net.failed
    /\ lastOp.net.status = 401

\* C1: whenever a call of api.request has settled on a response of status
\* 401, the token item is gone from localStorage, isAuthenticated is false,
\* the navigation to /login has been started, the call is rejected with
\* Error("Unauthorized") and response.json() has not been called.
C1_Claim ==
    SettledWith401 =>
        /\ localStorage = Null
        /\ ~isAuthenticated
        /\ navigation = "/login"
        /\ ~lastOp.outcome.resolved
        /\ lastOp.outcome.value = ErrorObject("Unauthorized")
        /\ ~lastOp.outcome.parsed

\* C2: in every reachable state the token item is present in localStorage
\* if and only if isAuthenticated is true.
C2_Claim == (localStorage # Null) <=> isAuthenticated

\* C3: every request that is put on the wire carries Authorization: Bearer T
\* when localStorage holds the token T at that moment, and no Authorization
\* header when localStorage holds no token; so no request issued after a
\* logout carries the token the logout removed.
C3_Theorem ==
    [][\A i \in Slots :
         IssuedIn(i) =>
            inflight'[i].config.headers.Authorization =
               IF localStorage' = Null THEN <<>>
               ELSE <<"Bearer", localStorage'>>]_vars

C3_Witness ==
    /\ token = "t1"
    /\ \E i \in Slots :
          /\ Owned(i)
          /\ inflight[i].op = "uploadContract"
          /\ inflight[i].config.headers.Authorization = <<"Bearer", "t1">>

\* The body the caller passed survives the trip: the text on the wire is
\* JSON that reads back as the members of the object.
RoundTrips(req) ==
    /\ req.config.body.kind = "text"
    /\ JSONParse(req.config.body.data).ok
    /\ JSONParse(req.config.body.data).value = req.options.body.data

\* C4, as claimed: every request with a body that is not multipart,
\* the form-encoded login request included, goes out with Content-Type
\* application/json and a body of JSON text that parses back to the original
\* object.
C4_Claim ==
    \A i \in Slots :
        (Owned(i) /\ inflight[i].options.body.kind \in {"object", "urlencoded"})
        => /\ inflight[i].config.headers.ContentType = "application/json"
           /\ RoundTrips(inflight[i])

\* C4, amended: every request whose body is a plain object (signup, ask) goes
\* out with Content-Type application/json and a body of JSON text that
\* parses back to the original object; the login request goes out with
\* Content-Type application/x-www-form-urlencoded and its URLSearchParams
\* body as the caller built it.
C4_Theorem ==
    \A i \in Slots :
        Owned(i) =>
            /\ inflight[i].options.body.kind = "object"
               => /\ inflight[i].config.headers.ContentType = "application/json"
                  /\ RoundTrips(inflight[i])
            /\ inflight[i].options.body.kind = "urlencoded"
               => /\ inflight[i].op = "login"
                  /\ inflight[i].config.headers.ContentType =
                        "application/x-www-form-urlencoded"
                  /\ inflight[i].config.body = inflight[i].options.body

C4_Witness ==
    \E i \in Slots :
        /\ Owned(i)
        /\ inflight[i].op = "signup"
        /\ inflight[i].options.body.data[1][2] = <<DQ, BS>>
        /\ RoundTrips(inflight[i])

\* C5: a call whose response has a status outside 2xx other than 401 is
\* rejected with the parsed JSON body of the response, or with
\* {detail: statusText} when the body does not parse, never with the
\* network-error object; a call whose response has a 2xx status resolves
\* with the parsed body (with {detail: statusText} when it does not parse).
C5_Theorem ==
    (lastOp.name = "settle" /\ ~lastOp.net.failed /\ lastOp.net.status # 401)
    => LET net == lastOp.net
           body == IF net.parseable THEN net.json
                   ELSE JSONObject(Undefined,
                                   StringDetail(StatusText(net.status)), {})
       IN  /\ lastOp.outcome.value = body
           /\ lastOp.outcome.value # NetworkError
           /\ lastOp.outcome.resolved
                 <=> (net.status >= 200 /\ net.status <= 299)

C5_Witness ==
    /\ lastOp.name = "settle"
    /\ lastOp.net.status = 422
    /\ lastOp.net.parseable
    /\ ~lastOp.outcome.resolved
    /\ lastOp.outcome.value = lastOp.net.json
    /\ lastOp.outcome.value.detail.t = "array"

SettledOwn(op) ==
    /\ lastOp.name = "settle"
    /\ lastOp.op = op
    /\ lastOp.owner

\* C6, as claimed: in signup mode a resolved signup alone leaves the user
\* unauthenticated with the login request of the same submit in flight; once
\* the login request of that submit has resolved too, the session holds a
\* token and the login/signup view is no longer rendered; a rejected signup
\* leaves no login request in flight and the user unauthenticated.
C6_Claim ==
    /\ (SettledOwn("signup") /\ lastOp.outcome.resolved)
       => /\ ~isAuthenticated
          /\ \E i \in Slots : Owned(i) /\ inflight[i].op = "login"
    /\ (SettledOwn("login") /\ ~lastOp.isLoginView /\ lastOp.outcome.resolved)
       => /\ localStorage # Null
          /\ isAuthenticated
          /\ view.component # "LoginPage"
    /\ (SettledOwn("signup") /\ ~lastOp.outcome.resolved)
       => /\ ~isAuthenticated
          /\ \A i \in Slots : Owned(i) => inflight[i].op # "login"

\* C7: while the user is unauthenticated the mounted view is the
\* login/signup view, whatever page and selectedDocId are, and every call
\* that still has a mounted component waiting for it is a login or a signup.
C7_Theorem ==
    ~isAuthenticated =>
        /\ view.component = "LoginPage"
        /\ \A i \in Slots : Owned(i) => inflight[i].op \in {"login", "signup"}

C7_Witness ==
    /\ ~isAuthenticated
    /\ page = "contract-detail"
    /\ selectedDocId = "abc123"
    /\ view.component = "LoginPage"
    /\ \E i \in Slots : inflight[i].op = "abandoned"

DetailCalls ==
    {i \in Slots : Owned(i) /\ inflight[i].op = "getContractDetails"}

\* C8: selecting the row of contract X on the dashboard sets selectedDocId
\* to X and page to contract-detail, and the detail view mounted by that
\* makes exactly one call, a GET of /contracts/X; a mounted detail view never
\* makes a second call for the id it was given.
C8_Theorem ==
    /\ lastOp.name = "handleViewDetails"
       => /\ selectedDocId = lastOp.arg
          /\ page = "contract-detail"
          /\ view.component = "ContractDetailPage"
          /\ view.docId = lastOp.arg
          /\ view.fetches = 1
          /\ Cardinality(DetailCalls) = 1
    /\ view.component = "ContractDetailPage"
       => /\ view.fetches <= 1
          /\ Cardinality(DetailCalls) <= 1
          /\ \A i \in DetailCalls :
                /\ inflight[i].endpoint = <<"/contracts", view.docId>>
                /\ inflight[i].config.method = "GET"

C8_Witness ==
    /\ lastOp.name = "handleViewDetails"
    /\ lastOp.arg = "abc123"
    /\ \E i \in DetailCalls : inflight[i].endpoint = <<"/contracts", "abc123">>

\* C9: a submit of the upload form while the file, the parties or the expiry
\* date is missing sets the error "All fields are required.", puts no call on
\* the wire and leaves file, parties, expiry date and loading as they were.
C9_Theorem ==
    [][(/\ lastOp'.name = "uploadSubmit"
        /\ view.component = "UploadPage"
        /\ (view.file = Null \/ view.parties = "" \/ view.expiryDate = ""))
       => /\ view'.component = "UploadPage"
          /\ view'.error = StringError(<<"All fields are required.">>)
          /\ inflight' = inflight
          /\ view'.file = view.file
          /\ view'.parties = view.parties
          /\ view'.expiryDate = view.expiryDate
          /\ view'.loading = view.loading]_vars

C9_Witness ==
    /\ lastOp.name = "uploadSubmit"
    /\ view.component = "UploadPage"
    /\ view.file = "contract.pdf"
    /\ view.parties = ""
    /\ view.expiryDate = "2030-01-01"
    /\ view.error = StringError(<<"All fields are required.">>)
    /\ ~view.loading

\* C10: login(T) with a token T leaves T in localStorage and in the token
\* state and isAuthenticated true; logout() leaves both empty and
\* isAuthenticated false; a 401 leaves localStorage empty; nothing else
\* writes the token item; and every process start takes the token state from
\* localStorage.  So a reload after login(T) is authenticated with T and a
\* reload after logout or after a 401 is unauthenticated.
C10_Theorem ==
    [][/\ (/\ lastOp'.name = "settle"
           /\ lastOp'.op = "login"
           /\ lastOp'.owner
           /\ lastOp'.outcome.resolved
           /\ lastOp'.outcome.value.access_token \in Tokens)
          => /\ localStorage' = lastOp'.outcome.value.access_token
             /\ token' = lastOp'.outcome.value.access_token
             /\ IsAuthenticatedOf(token')
       /\ lastOp'.name = "logout"
          => /\ localStorage' = Null
             /\ token' = Null
             /\ ~IsAuthenticatedOf(token')
       /\ (lastOp'.name = "settle" /\ lastOp'.outcome.teardown)
          => localStorage' = Null
       /\ lastOp'.name = "start"
          => /\ localStorage' = localStorage
             /\ token' = localStorage
             /\ IsAuthenticatedOf(token') <=> (localStorage # Null)
       /\ localStorage' # localStorage
          => \/ lastOp'.name = "logout"
             \/ lastOp'.name = "settle" /\ lastOp'.outcome.teardown
             \/ /\ lastOp'.name = "settle"
                /\ lastOp'.op = "login"
                /\ lastOp'.outcome.resolved]_vars

C10_Witness ==
    /\ lastOp.name = "start"
    /\ token = "t2"
    /\ localStorage = "t2"
    /\ view.component = "DashboardPage"

\* The mounted detail view displays a contract that was fetched for an id
\* other than the selected one.
StaleDetail ==
    /\ view.component = "ContractDetailPage"
    /\ view.contract # Null
    /\ view.contract # selectedDocId

\* A detail call for an id other than the selected one has just resolved
\* while a detail view is mounted.
LateDetail ==
    /\ lastOp.name = "settle"
    /\ lastOp.arg \in Ids
    /\ lastOp.outcome.resolved
    /\ view.component = "ContractDetailPage"
    /\ selectedDocId # lastOp.arg

\* C11, as claimed: when a detail call for A resolves after the user has
\* navigated away and selected B # A, its response is rendered as the detail
\* of the newly selected id: the mounted detail view then displays the data
\* fetched for A while selectedDocId is B.
C11_Claim == LateDetail => view.contract = lastOp.arg /\ StaleDetail

\* C11, amended: a detail call can settle after the user has navigated away
\* and selected another id, but the view that made it has been unmounted by
\* the navigation and its response is dropped; in every reachable state the
\* mounted detail view was given the selected id and displays, if anything,
\* the contract fetched for that id.
C11_Theorem ==
    view.component = "ContractDetailPage"
    => /\ view.docId = selectedDocId
       /\ view.contract \in {Null, selectedDocId}
       /\ \A i \in DetailCalls :
             inflight[i].endpoint = <<"/contracts", selectedDocId>>
       /\ ~StaleDetail

C11_Witness ==
    /\ LateDetail
    /\ ~lastOp.owner
    /\ lastOp.arg = "abc123"
    /\ lastOp.outcome.value.payload = {"abc123"}
    /\ view.component = "ContractDetailPage"
    /\ selectedDocId = "def456"
    /\ view.docId = "def456"

\* C12, as claimed: when a call made by a view is answered with a 401 the
\* error state of the view is not set, the 401 being handled by api.request
\* alone (removal of the token item and navigation to /login); every other
\* failure of a call ends in the error state of the view that made it, with
\* no teardown.
C12_Claim ==
    /\ (SettledWith401 /\ lastOp.owner)
       => /\ lastOp.outcome.teardown
          /\ view.error = NoError
    /\ (/\ lastOp.name = "settle"
        /\ lastOp.owner
        /\ ~lastOp.outcome.resolved
        /\ ~SettledWith401)
       => /\ ~lastOp.outcome.teardown
          /\ view.error # NoError

\* The call in slot i is in flight before the step and still in flight
\* after it.
StillPending(i) ==
    /\ inflight[i].op # "free"
    /\ inflight'[i] \in {inflight[i], Abandoned(inflight[i])}

\* C13, as claimed: while a call is in flight the token item is read and
\* never written: no step (a login, a logout, the 401 teardown of another
\* call) changes the token item while a call stays pending across it.
C13_Claim ==
    [][(\E i \in Slots : StillPending(i)) => localStorage' = localStorage]_vars

\* C14: page and selectedDocId are (dashboard, none) at every process start
\* and are changed by nothing but an item of the sidebar (page only), the
\* row of a contract (both), the Upload Contract button of the empty
\* dashboard (page only) and Back to Contracts (page only); a login, a
\* logout and the settling of a call, a 401 included, leave both as they
\* were.  So a login that follows a logout without a reload shows the page
\* that was current before the logout.
C14_Theorem ==
    /\ page = "dashboard"
    /\ selectedDocId = Null
    /\ [][/\ lastOp'.name = "start"
             => page' = "dashboard" /\ selectedDocId' = Null
          /\ lastOp'.name \in {"logout", "settle"}
             => page' = page /\ selectedDocId' = selectedDocId
          /\ page' # page
             => \/ lastOp'.name = "start"
                \/ \E p \in NavItems : SidebarNavigate(p)
                \/ \E id \in Ids : HandleViewDetails(id)
                \/ EmptyStateUpload
                \/ BackToContracts
          /\ selectedDocId' # selectedDocId
             => \/ lastOp'.name = "start"
                \/ \E id \in Ids : HandleViewDetails(id)]_vars

C14_Witness ==
    /\ SettledOwn("login")
    /\ lastOp.outcome.resolved
    /\ isAuthenticated
    /\ page = "upload"
    /\ view.component = "UploadPage"
    /\ navigation = Null

\* The component that makes the calls of each kind.
InitiatorOf(op) ==
    CASE op = "login"              -> "LoginPage"
      [] op = "signup"             -> "LoginPage"
      [] op = "getContracts"       -> "DashboardPage"
      [] op = "getContractDetails" -> "ContractDetailPage"
      [] op = "uploadContract"     -> "UploadPage"
      [] OTHER                     -> "QueryPage"

\* The view that made the call that has just settled holds its result: the
\* session for a login, the list, the contract, the success banner or the
\* answer for the others.
SuccessSet ==
    CASE lastOp.op = "login"  -> isAuthenticated
      [] lastOp.op = "signup" -> FALSE
      [] lastOp.op = "getContracts" ->
           lastOp.outcome.resolved
           /\ view.contracts = lastOp.outcome.value.payload
      [] lastOp.op = "getContractDetails" -> view.contract # Null
      [] lastOp.op = "uploadContract"     -> view.success # NoError
      [] OTHER                            -> view.result # Null

ErrorSet ==
    /\ view.component = InitiatorOf(lastOp.op)
    /\ view.error # NoError

InitiatorLoading ==
    /\ view.component = InitiatorOf(lastOp.op)
    /\ view.loading

\* C15, as claimed: once a call made by a view has settled (2xx, other
\* status, 401 or transport failure) and the handler that awaited it has run
\* to its end, the loading flag of the view is false and exactly one of its
\* result and its error is set (a resolved signup is followed by the login
\* call of the same submit, which settles the submit); and the loading flag
\* of a view is true for as long as a call it made is in flight.
C15_Claim ==
    /\ (/\ lastOp.name = "settle"
        /\ lastOp.owner
        /\ ~(lastOp.op = "signup" /\ lastOp.outcome.resolved))
       => /\ ~InitiatorLoading
          /\ SuccessSet # ErrorSet
    /\ \A i \in Slots : Owned(i) => view.loading

\* C16: whenever page is contract-detail, selectedDocId is set and is the id
\* of the row selected last; once set it is reset by nothing short of a
\* process start, Back to Contracts and the sidebar included; so a mounted
\* detail view has been given an id, has made its call, and is loading only
\* while that call is in flight.
C16_Theorem ==
    /\ [](page = "contract-detail" => selectedDocId \in Ids)
    /\ [](view.component = "ContractDetailPage"
          => /\ view.docId = selectedDocId
             /\ view.docId \in Ids
             /\ view.fetches = 1
             /\ view.loading => DetailCalls # {})
    /\ [][/\ \A id \in Ids : HandleViewDetails(id) => selectedDocId' = id
          /\ selectedDocId' # selectedDocId
             => \/ lastOp'.name = "start"
                \/ /\ lastOp'.name = "handleViewDetails"
                   /\ selectedDocId' = lastOp'.arg
          /\ (selectedDocId # Null /\ selectedDocId' = Null)
             => lastOp'.name = "start"]_vars

C16_Witness ==
    /\ page = "contract-detail"
    /\ selectedDocId = "def456"
    /\ view.component = "ContractDetailPage"
    /\ view.contract = "def456"
    /\ ~view.loading
    /\ \E i \in Slots : inflight[i].op = "abandoned" /\ inflight[i].docId = "abc123"

\* C17, as claimed: in the upload view, after any sequence of submits (with
\* all fields or not) and of answers to them, the error banner and the
\* success banner are never both set.
C17_Claim ==
    view.component = "UploadPage"
    => ~(view.error # NoError /\ view.success # NoError)

=============================================================================
